---- MODULE Spec2Model ----
(***************************************************************************)
(* Model of bluesky_social_graph.py: the command line run (main), the API  *)
(* client (login, profile, cursor pagination), the graph builder and the   *)
(* console / CSV / JSON reporters.  The remote service is the environment: *)
(* every response is a nondeterministic choice of status, items and cursor.*)
(***************************************************************************)
EXTENDS Integers, Sequences, FiniteSets, TLC

\* ------------------------------------------------------------------ bounds
\* A paginated fetch gets at most MaxPages pages: the service hands out a
\* continuation token on fewer than MaxPages responses (a finite mock service).
MaxPages == 2
\* Longest follower / follow list drawn from Entries in InitGraph
MaxLen == 3

\* --------------------------------------------------------------- constants
PUBLIC_API == "https://public.api.bsky.app/xrpc"
AUTH_API == "https://bsky.social/xrpc"
PAGE_LIMIT == 100
TopMutuals == 20
TopFans == 10
TopNotFollowedBack == 10

\* Python None: dict.get on a missing key, an unset Optional
None == "<None>"

\* ------------------------------------------------------ service (environment)
\* GraphEntry, reduced to the two fields the program inspects or copies
GraphEntry(d, h) == [did |-> d, handle |-> h]

PageABC == <<GraphEntry(1, "a"), GraphEntry(2, "b"), GraphEntry(3, "c")>>
PageBD == <<GraphEntry(2, "b.new"), GraphEntry(4, "d")>>

\* item lists a page response may carry (at most PAGE_LIMIT items each)
PageItems == {PageABC, PageBD}

\* entries and lists the graph-only specification draws from
Entries == {GraphEntry(1, "a"), GraphEntry(2, "b"), GraphEntry(2, "b.new"),
            GraphEntry(4, "d")}
LongList(a, b) == [i \in 1..(b - a + 1) |-> GraphEntry(a + i - 1, "u")]
InputLists ==
    UNION {[1..n -> Entries] : n \in 0..MaxLen}
        \cup {PageABC, LongList(1, 32), LongList(12, 43)}

\* continuation tokens; "" is a cursor key present with an empty value
Tokens == {"c1", "c2"}
CursorValues == {None, ""} \cup Tokens

\* ------------------------------------------------------------------- state
VARIABLES
    pc,             \* position of the single thread of control
    args,           \* parsed command line: handle, password, export
    authenticated,  \* BlueskyClient.authenticated
    bearer,         \* session.headers carries Authorization: Bearer
    fetch,          \* endpoint _paginate is running for
    entries,        \* _paginate: entries
    cursor,         \* _paginate: cursor
    page,           \* _paginate: page
    graph,          \* the SocialGraph under construction
    returned,       \* get_social_graph returned graph to main
    summary,        \* what print_summary listed, or None
    exported,       \* what the exporter wrote, or None
    stderr,         \* what reached the error stream
    exitCode,       \* {} while running, {status} once the process ended
    lastResp,       \* the response received last
    log             \* requests, responses and sleeps in program order

vars == <<pc, args, authenticated, bearer, fetch, entries, cursor, page,
          graph, returned, summary, exported, stderr, exitCode, lastResp, log>>

\* ----------------------------------------------------------------- helpers
\* truthiness of an Optional[str]: `if cursor` / `if not cursor`
TruthyNotNone(c) == c # None

Truthy(c) == c # None /\ c # ""

\* BlueskyClient.base_url
base_url(auth) == IF auth THEN AUTH_API ELSE PUBLIC_API

\* {e.did for e in s}
Dids(s) == {s[i].did : i \in DOMAIN s}

\* s[:n]
Take(s, n) == SubSeq(s, 1, IF Len(s) < n THEN Len(s) ELSE n)

ReqEvent(ep, base, cur) ==
    [t |-> "req", ep |-> ep, base |-> base, cursor |-> cur,
     limit |-> IF ep \in {"followers", "follows"} THEN PAGE_LIMIT ELSE 0,
     bearer |-> bearer]

RespEvent(ep, ok, items) == [t |-> "resp", ep |-> ep, ok |-> ok, items |-> items]

SleepEvent(ep) == [t |-> "sleep", ep |-> ep]

NoResp == [ep |-> None, ok |-> TRUE, cursor |-> None]

NoSummary == [printed |-> FALSE, fans |-> <<>>, not_followed_back |-> <<>>,
              shown_mutuals |-> <<>>, shown_fans |-> <<>>,
              shown_not_followed_back |-> <<>>]

NoExport == [format |-> None, rows |-> <<>>, stats |-> <<>>]

EmptyGraph == [profile |-> None, followers |-> <<>>, follows |-> <<>>,
               mutuals |-> <<>>]

Init ==
    /\ pc = "main"
    /\ args \in [handle : BOOLEAN, password : BOOLEAN,
                 export : {None, "json", "csv"}]
    /\ authenticated = FALSE
    /\ bearer = FALSE
    /\ fetch = None
    /\ entries = <<>>
    /\ cursor = None
    /\ page = 0
    /\ graph = EmptyGraph
    /\ returned = FALSE
    /\ summary = NoSummary
    /\ exported = NoExport
    /\ stderr = <<>>
    /\ exitCode = {}
    /\ lastResp = NoResp
    /\ log = <<>>

\* ------------------------------------------------------- derived sequences
\* get_social_graph: [f for f in graph.follows if f.did in follower_dids]
MutualsFromFollowers(follows, followers) ==
    SelectSeq(followers, LAMBDA f : f.did \in Dids(follows))

Mutuals(follows, followers) ==
    SelectSeq(follows, LAMBDA f : f.did \in Dids(followers))

\* print_summary: [f for f in graph.followers if f.did not in follows_dids]
FansIncludingMutuals(g) == g.followers

Fans(g) ==
    SelectSeq(g.followers, LAMBDA f : f.did \notin Dids(g.follows))

\* print_summary: [f for f in graph.follows if f.did not in follower_dids]
NotFollowedBack(g) ==
    SelectSeq(g.follows, LAMBDA f : f.did \notin Dids(g.followers))

CsvRow(rel, e) == [relationship |-> rel, did |-> e.did, handle |-> e.handle]

\* export_csv, the follower pass
FollowerRows(g) ==
    [i \in DOMAIN g.followers |->
        CsvRow(IF g.followers[i].did \in Dids(g.mutuals)
               THEN "mutual" ELSE "follower", g.followers[i])]

\* export_csv, the follow pass
FollowRows(g) ==
    LET kept == SelectSeq(g.follows, LAMBDA f : f.did \notin Dids(g.followers))
    IN  [i \in DOMAIN kept |-> CsvRow("following", kept[i])]

\* export_csv: the data rows in file order
CsvRowsUnfiltered(g) ==
    FollowerRows(g) \o [i \in DOMAIN g.follows |-> CsvRow("following", g.follows[i])]

CsvRows(g) == FollowerRows(g) \o FollowRows(g)

\* export_json: the stats block
JsonStats(g) == <<Len(g.followers), Len(g.follows), Len(g.mutuals)>>

\* ----------------------------------------------------------------- actions
\* main: BlueskyClient(handle, password); __init__ logs in when both given
Construct ==
    /\ pc = "main"
    /\ IF args.handle /\ args.password
       THEN /\ log' = Append(log, ReqEvent("login", AUTH_API, None))
            /\ pc' = "login_wait"
       ELSE /\ pc' = "client_ready"
            /\ UNCHANGED log
    /\ UNCHANGED <<args, authenticated, bearer, fetch, entries, cursor, page,
                   graph, returned, summary, exported, stderr, exitCode,
                   lastResp>>

\* _login after the response: raise_for_status raises out of __init__ and out
\* of main (the constructor call is outside the try), so the interpreter
\* prints the traceback (the error, not the response body) and exits 1
LoginRespSwallowed ==
    /\ pc = "login_wait"
    /\ \E ok \in BOOLEAN :
        /\ lastResp' = [ep |-> "login", ok |-> ok, cursor |-> None]
        /\ log' = Append(log, RespEvent("login", ok, <<>>))
        /\ authenticated' = ok
        /\ bearer' = ok
        /\ pc' = "client_ready"
        /\ UNCHANGED <<stderr, exitCode>>
    /\ UNCHANGED <<args, fetch, entries, cursor, page, graph, returned,
                   summary, exported>>

LoginResp ==
    /\ pc = "login_wait"
    /\ \E ok \in BOOLEAN :
        /\ lastResp' = [ep |-> "login", ok |-> ok, cursor |-> None]
        /\ log' = Append(log, RespEvent("login", ok, <<>>))
        /\ IF ok
           THEN /\ authenticated' = TRUE
                /\ bearer' = TRUE
                /\ pc' = "client_ready"
                /\ UNCHANGED <<stderr, exitCode>>
           ELSE /\ stderr' = Append(stderr, [error |-> TRUE, body |-> FALSE])
                /\ exitCode' = {1}
                /\ pc' = "exit"
                /\ UNCHANGED <<authenticated, bearer>>
    /\ UNCHANGED <<args, fetch, entries, cursor, page, graph, returned,
                   summary, exported>>

\* main -> get_social_graph -> get_profile: the request
GetProfileReqBaseUrl ==
    /\ pc = "client_ready"
    /\ log' = Append(log, ReqEvent("profile", base_url(authenticated), None))
    /\ pc' = "profile_wait"
    /\ UNCHANGED <<args, authenticated, bearer, fetch, entries, cursor, page,
                   graph, returned, summary, exported, stderr, exitCode,
                   lastResp>>

GetProfileReq ==
    /\ pc = "client_ready"
    /\ log' = Append(log, ReqEvent("profile", PUBLIC_API, None))
    /\ pc' = "profile_wait"
    /\ UNCHANGED <<args, authenticated, bearer, fetch, entries, cursor, page,
                   graph, returned, summary, exported, stderr, exitCode,
                   lastResp>>

\* main: except requests.HTTPError: print error and response body, exit(1)
AbortKeepsGoing ==
    /\ stderr' = Append(stderr, [error |-> TRUE, body |-> TRUE])
    /\ returned' = TRUE
    /\ pc' = "graph_ready"
    /\ UNCHANGED <<exitCode, graph, fetch, entries, cursor, page>>

Abort ==
    /\ stderr' = Append(stderr, [error |-> TRUE, body |-> TRUE])
    /\ exitCode' = {1}
    /\ pc' = "exit"
    /\ UNCHANGED <<returned, graph, fetch, entries, cursor, page>>

\* get_profile after the response; on success get_followers starts
ProfileRespFollowsFirst ==
    /\ pc = "profile_wait"
    /\ \E ok \in BOOLEAN :
        /\ lastResp' = [ep |-> "profile", ok |-> ok, cursor |-> None]
        /\ log' = Append(log, RespEvent("profile", ok, <<>>))
        /\ IF ok
           THEN /\ graph' = [graph EXCEPT !.profile = "profile"]
                /\ fetch' = "follows"
                /\ entries' = <<>>
                /\ cursor' = None
                /\ page' = 0
                /\ pc' = "page_req"
                /\ UNCHANGED <<stderr, exitCode, returned>>
           ELSE Abort
    /\ UNCHANGED <<args, authenticated, bearer, summary, exported>>

ProfileResp ==
    /\ pc = "profile_wait"
    /\ \E ok \in BOOLEAN :
        /\ lastResp' = [ep |-> "profile", ok |-> ok, cursor |-> None]
        /\ log' = Append(log, RespEvent("profile", ok, <<>>))
        /\ IF ok
           THEN /\ graph' = [graph EXCEPT !.profile = "profile"]
                /\ fetch' = "followers"
                /\ entries' = <<>>
                /\ cursor' = None
                /\ page' = 0
                /\ pc' = "page_req"
                /\ UNCHANGED <<stderr, exitCode, returned>>
           ELSE Abort
    /\ UNCHANGED <<args, authenticated, bearer, summary, exported>>

\* _paginate: build params (cursor only when set) and issue the request
PageReqNoCursor ==
    /\ pc = "page_req"
    /\ log' = Append(log, ReqEvent(fetch, base_url(authenticated), None))
    /\ pc' = "page_wait"
    /\ UNCHANGED <<args, authenticated, bearer, fetch, entries, cursor, page,
                   graph, returned, summary, exported, stderr, exitCode,
                   lastResp>>

PageReq ==
    /\ pc = "page_req"
    /\ log' = Append(log, ReqEvent(fetch, base_url(authenticated),
                                   IF Truthy(cursor) THEN cursor ELSE None))
    /\ pc' = "page_wait"
    /\ UNCHANGED <<args, authenticated, bearer, fetch, entries, cursor, page,
                   graph, returned, summary, exported, stderr, exitCode,
                   lastResp>>

\* _paginate after the response: raise_for_status, append the items, take the
\* cursor, leave the loop when it is not set.  Leaving the loop returns the
\* entries to get_social_graph, which starts the follows fetch or, after it,
\* computes the mutuals and returns the graph.
PageResp ==
    /\ pc = "page_wait"
    /\ \E ok \in BOOLEAN, items \in PageItems, cur \in CursorValues :
        /\ cur \in Tokens => page + 1 < MaxPages
        /\ ~ok => (items = PageABC /\ cur = None)
        /\ lastResp' = [ep |-> fetch, ok |-> ok, cursor |-> cur]
        /\ log' = Append(log, RespEvent(fetch, ok, IF ok THEN items ELSE <<>>))
        /\ IF ~ok
           THEN Abort
           ELSE /\ UNCHANGED <<stderr, exitCode>>
                /\ IF Truthy(cur)
                   THEN /\ entries' = entries \o items
                        /\ cursor' = cur
                        /\ page' = page + 1
                        /\ pc' = "sleep"
                        /\ UNCHANGED <<fetch, graph, returned>>
                   ELSE /\ entries' = <<>>
                        /\ cursor' = None
                        /\ page' = 0
                        /\ UNCHANGED returned
                        /\ IF fetch = "followers"
                           THEN /\ graph' = [graph EXCEPT
                                        !.followers = entries \o items]
                                /\ fetch' = "follows"
                                /\ pc' = "page_req"
                           ELSE /\ graph' = [graph EXCEPT
                                        !.follows = entries \o items]
                                /\ fetch' = None
                                /\ pc' = "mutuals"
    /\ UNCHANGED <<args, authenticated, bearer, summary, exported>>

\* _paginate: time.sleep(REQUEST_DELAY) before the next iteration
Sleep ==
    /\ pc = "sleep"
    /\ log' = Append(log, SleepEvent(fetch))
    /\ pc' = "page_req"
    /\ UNCHANGED <<args, authenticated, bearer, fetch, entries, cursor, page,
                   graph, returned, summary, exported, stderr, exitCode,
                   lastResp>>

\* get_social_graph: compute the mutuals and return the graph to main
ComputeMutuals ==
    /\ pc = "mutuals"
    /\ graph' = [graph EXCEPT !.mutuals = Mutuals(graph.follows, graph.followers)]
    /\ returned' = TRUE
    /\ pc' = "graph_ready"
    /\ UNCHANGED <<args, authenticated, bearer, fetch, entries, cursor, page,
                   summary, exported, stderr, exitCode, lastResp, log>>

\* main: print_summary(graph)
PrintSummary ==
    /\ pc = "graph_ready"
    /\ summary' = [printed |-> TRUE,
                   fans |-> Fans(graph),
                   not_followed_back |-> NotFollowedBack(graph),
                   shown_mutuals |-> Take(graph.mutuals, TopMutuals),
                   shown_fans |-> Take(Fans(graph), TopFans),
                   shown_not_followed_back |->
                       Take(NotFollowedBack(graph), TopNotFollowedBack)]
    /\ pc' = "export"
    /\ UNCHANGED <<args, authenticated, bearer, fetch, entries, cursor, page,
                   graph, returned, exported, stderr, exitCode, lastResp, log>>

\* main: export if requested, then the process ends normally
Export ==
    /\ pc = "export"
    /\ exported' = CASE args.export = "json" ->
                        [format |-> "json", rows |-> <<>>,
                         stats |-> JsonStats(graph)]
                     [] args.export = "csv" ->
                        [format |-> "csv", rows |-> CsvRows(graph),
                         stats |-> <<>>]
                     [] OTHER -> NoExport
    /\ exitCode' = {0}
    /\ pc' = "exit"
    /\ UNCHANGED <<args, authenticated, bearer, fetch, entries, cursor, page,
                   graph, returned, summary, stderr, lastResp, log>>

Next ==
    \/ Construct
    \/ LoginResp
    \/ GetProfileReq
    \/ ProfileResp
    \/ PageReq
    \/ PageResp
    \/ Sleep
    \/ ComputeMutuals
    \/ PrintSummary
    \/ Export

Spec == Init /\ [][Next]_vars

\* One thread of control that is never descheduled for good, and a service
\* that answers every request: some step is taken whenever one is possible.
FairSpec == Spec /\ WF_vars(Next)

\* The reconcile / report part of a run on its own: get_social_graph at the
\* point where both lists have been fetched, with the lists drawn from
\* InputLists (the request history is not reconstructed).
InitGraph ==
    /\ pc = "mutuals"
    /\ args \in [handle : {FALSE}, password : {FALSE},
                 export : {None, "json", "csv"}]
    /\ authenticated = FALSE
    /\ bearer = FALSE
    /\ fetch = None
    /\ entries = <<>>
    /\ cursor = None
    /\ page = 0
    /\ \E fr \in InputLists, fo \in InputLists :
          graph = [profile |-> "profile", followers |-> fr, follows |-> fo,
                   mutuals |-> <<>>]
    /\ returned = FALSE
    /\ summary = NoSummary
    /\ exported = NoExport
    /\ stderr = <<>>
    /\ exitCode = {}
    /\ lastResp = NoResp
    /\ log = <<>>

NextGraph ==
    \/ ComputeMutuals
    \/ PrintSummary
    \/ Export

SpecGraph == InitGraph /\ [][NextGraph]_vars

\* ============================================================== properties
\* events of the log that belong to one endpoint, in program order
Seg(ep) == SelectSeq(log, LAMBDA e : e.ep = ep)

\* positions of the log holding an event of kind t for endpoint ep
At(t, ep) == {i \in DOMAIN log : log[i].t = t /\ log[i].ep = ep}

GraphEps == {"profile", "followers", "follows"}
PageEps == {"followers", "follows"}

\* some request of the kind ep got a non-2xx response
Failed(ep) == \E i \in At("resp", ep) : ~log[i].ok

\* the process has ended
Exited == pc = "exit"

\* ---- C1
\* C1: once the login request of a run with credentials got a non-2xx
\* response, the log holds no profile, followers or follows request, no
\* summary and no export exist, and the process has exited with status 1.
C1_LoginFailureIsFatal ==
    Failed("login") =>
        /\ args.handle /\ args.password
        /\ \A ep \in GraphEps : At("req", ep) = {}
        /\ ~summary.printed
        /\ exported = NoExport
        /\ ~returned
        /\ Exited
        /\ exitCode = {1}

C1_Witness ==
    /\ Failed("login")
    /\ Exited
    /\ Len(log) = 2

\* ---- C2
\* a step in which _paginate receives a 2xx page
PageStep == pc = "page_wait" /\ pc' # "page_wait" /\ lastResp'.ok
\* the loop goes on (sleeps, then requests again) / is left
LoopContinues == pc' = "sleep"
LoopStops == pc' \in {"page_req", "mutuals"} /\ page' = 0

\* C2 as stated: the loop stops after a 2xx page iff the response has no
\* cursor; it never stops after a response that carries one.
C2_StopsIffNoCursorKey ==
    [][PageStep => /\ lastResp'.cursor = None => LoopStops
                   /\ lastResp'.cursor # None => LoopContinues]_vars

\* _paginate is running for the endpoint ep
Paginating(ep) == fetch = ep /\ pc \in {"page_req", "page_wait", "sleep"}

\* C2 amended: the loop stops after a 2xx page iff the response has no cursor
\* or an empty one; it never stops after a response with a non-empty cursor;
\* and against a service that hands out finitely many non-empty cursors every
\* fetch ends.
C2_StopsIffCursorFalsy ==
    /\ [][PageStep => /\ lastResp'.cursor \in {None, ""} => LoopStops
                      /\ lastResp'.cursor \notin {None, ""} => LoopContinues]_vars
    /\ \A ep \in PageEps : Paginating(ep) ~> ~Paginating(ep)

\* the loop was left on a response carrying an empty cursor, after two pages
C2_Witness ==
    /\ pc = "mutuals"
    /\ lastResp.ep = "follows"
    /\ lastResp.cursor = ""
    /\ Cardinality(At("req", "follows")) = 2

\* ---- C3
\* the fetch for ep has returned its list to get_social_graph
FetchDone(ep) ==
    IF ep = "followers"
    THEN fetch = "follows" \/ pc \in {"mutuals", "graph_ready", "export"}
            \/ exitCode = {0}
    ELSE pc \in {"mutuals", "graph_ready", "export"} \/ exitCode = {0}

FetchResult(ep) == IF ep = "followers" THEN graph.followers ELSE graph.follows

RECURSIVE Flatten(_)
\* the items of the 2xx responses of a segment, concatenated in order
Flatten(seg) ==
    IF seg = <<>> THEN <<>>
    ELSE LET h == Head(seg)
         IN  (IF h.t = "resp" /\ h.ok THEN h.items ELSE <<>>) \o Flatten(Tail(seg))

RECURSIVE SumLen(_)
SumLen(seg) ==
    IF seg = <<>> THEN 0
    ELSE LET h == Head(seg)
         IN  (IF h.t = "resp" /\ h.ok THEN Len(h.items) ELSE 0) + SumLen(Tail(seg))

\* the shape req resp (sleep req resp)* : n requests, n responses, n-1 delays,
\* each delay after a response and before the next request, none at the end
FetchShape(seg) ==
    /\ Len(seg) % 3 = 2
    /\ \A k \in DOMAIN seg :
        seg[k].t = CASE k % 3 = 1 -> "req" [] k % 3 = 2 -> "resp" [] OTHER -> "sleep"
    /\ \A k \in DOMAIN seg : seg[k].t = "resp" => seg[k].ok
    /\ seg[1].cursor = None
    /\ \A k \in DOMAIN seg : seg[k].t = "req" => seg[k].limit = PAGE_LIMIT

C3_FetchShapeAndResult ==
    \A ep \in PageEps :
        FetchDone(ep) =>
            /\ FetchShape(Seg(ep))
            /\ FetchResult(ep) = Flatten(Seg(ep))
            /\ Len(FetchResult(ep)) = SumLen(Seg(ep))

\* the request of iteration i > 1 carries the cursor of response i - 1
C3_CursorChain ==
    (pc = "page_req" /\ pc' = "page_wait") =>
        log'[Len(log')].cursor =
            IF log # <<>> /\ log[Len(log)].t = "sleep"
            THEN lastResp.cursor ELSE None

\* C3: a completed fetch issued n requests, the first without a cursor and
\* each later one with the cursor of the response before it, slept n-1 times,
\* each time between a response and the next request and never after the last
\* response, and returned the concatenation of the n pages in service order.
C3_PaginationTrace == [](C3_FetchShapeAndResult) /\ [][C3_CursorChain]_vars

\* a two page fetch of followers (3 and 2 items, the second page without a
\* cursor): 2 requests, 1 delay, 5 entries
C3_Witness ==
    /\ FetchDone("followers")
    /\ Cardinality(At("req", "followers")) = 2
    /\ Cardinality(At("sleep", "followers")) = 1
    /\ graph.followers = PageABC \o PageBD
    /\ log[Len(log)].t = "resp"
    /\ lastResp.cursor = None

\* ---- C4
\* r is the subsequence of s at the positions S, in the order of s
IsSubseqAt(r, s, S) ==
    /\ Len(r) = Cardinality(S)
    /\ \A i \in S : r[Cardinality({j \in S : j <= i})] = s[i]

Range(s) == {s[i] : i \in DOMAIN s}

\* positions of s whose identifier occurs / does not occur in t
InOther(s, t) == {i \in DOMAIN s : \E j \in DOMAIN t : t[j].did = s[i].did}
NotInOther(s, t) == DOMAIN s \ InOther(s, t)

\* C4: in a returned graph mutuals is the subsequence of follows, in follows
\* order, of exactly the entries whose identifier is a follower's identifier.
C4_MutualsAreIntersection ==
    returned =>
        /\ IsSubseqAt(graph.mutuals, graph.follows,
                      InOther(graph.follows, graph.followers))
        /\ Range(graph.mutuals) \subseteq Range(graph.follows)
        /\ \A k \in DOMAIN graph.mutuals :
              \E j \in DOMAIN graph.followers :
                  graph.followers[j].did = graph.mutuals[k].did
        /\ \A i \in DOMAIN graph.follows :
              (\E j \in DOMAIN graph.followers :
                  graph.followers[j].did = graph.follows[i].did)
                  => graph.follows[i] \in Range(graph.mutuals)

\* followers A,B,C and follows B,D: the mutual is the follows entry for B
C4_Witness ==
    /\ returned
    /\ graph.followers = PageABC
    /\ graph.follows = PageBD
    /\ graph.mutuals = <<GraphEntry(2, "b.new")>>

\* ---- C5
BothDids == {graph.followers[i].did : i \in DOMAIN graph.followers}
                \cap {graph.follows[i].did : i \in DOMAIN graph.follows}

RowsOf(d) == {k \in DOMAIN exported.rows : exported.rows[k].did = d}

\* C5 as stated: the CSV has followers + (follows - |follows /\ followers|)
\* data rows, the intersection being a set of identifiers, and every account
\* in it has exactly one row, a "mutual" row of the follower pass.
C5_RowCountBySetIntersection ==
    exported.format = "csv" =>
        /\ Len(exported.rows) =
              Len(graph.followers) + (Len(graph.follows) - Cardinality(BothDids))
        /\ \A d \in BothDids :
              /\ Cardinality(RowsOf(d)) = 1
              /\ \A k \in RowsOf(d) :
                    /\ exported.rows[k].relationship = "mutual"
                    /\ k <= Len(graph.followers)

\* C5 amended: the CSV has followers + (follows - m) data rows, m being the
\* number of follows entries whose identifier is a follower's identifier
\* (the length of mutuals); every account that is both a follower and a
\* follow has one row per followers entry, each a "mutual" row of the
\* follower pass, and none in the follow pass.
C5_RowCountByEntries ==
    exported.format = "csv" =>
        /\ Len(exported.rows) =
              Len(graph.followers) + (Len(graph.follows)
                  - Cardinality(InOther(graph.follows, graph.followers)))
        /\ Len(exported.rows) =
              Len(graph.followers) + Len(graph.follows) - Len(graph.mutuals)
        /\ \A d \in BothDids :
              /\ Cardinality(RowsOf(d)) =
                    Cardinality({i \in DOMAIN graph.followers :
                                    graph.followers[i].did = d})
              /\ \A k \in RowsOf(d) :
                    /\ exported.rows[k].relationship = "mutual"
                    /\ k <= Len(graph.followers)

\* a CSV of a graph in which the service repeated a follow that is a follower
C5_Witness ==
    /\ exported.format = "csv"
    /\ graph.followers = PageABC
    /\ graph.follows = PageBD \o PageBD
    /\ Len(exported.rows) = 5

\* ---- C6
Rank(ep) == CASE ep = "login" -> 0 [] ep = "profile" -> 1
              [] ep = "followers" -> 2 [] OTHER -> 3

Reqs == SelectSeq(log, LAMBDA e : e.t = "req")

\* C6: the requests go out in the order profile, followers pages, follows
\* pages; followers start after the profile response, follows after the
\* followers pagination has returned, mutuals after the follows pagination
\* has returned; every request is answered before the next one is issued.
C6_StrictSequence ==
    /\ Cardinality(At("req", "profile")) <= 1
    /\ \A k \in 1..(Len(Reqs) - 1) : Rank(Reqs[k].ep) <= Rank(Reqs[k + 1].ep)
    /\ \A i \in At("req", "followers") :
          \E j \in At("resp", "profile") : j < i /\ log[j].ok
    /\ \A i \in At("req", "follows") :
          \E j \in At("resp", "followers") :
              j < i /\ log[j].ok /\ log[j + 1].t = "req"
                    /\ log[j + 1].ep = "follows"
    /\ (returned \/ graph.mutuals # <<>>) =>
          /\ log # <<>>
          /\ log[Len(log)].t = "resp"
          /\ log[Len(log)].ep = "follows"
          /\ log[Len(log)].ok
    /\ \A i \in DOMAIN log :
          /\ (log[i].t = "req" /\ i < Len(log)) =>
                (log[i + 1].t = "resp" /\ log[i + 1].ep = log[i].ep)
          /\ log[i].t = "resp" =>
                (i > 1 /\ log[i - 1].t = "req" /\ log[i - 1].ep = log[i].ep)
    /\ (pc \in {"login_wait", "profile_wait", "page_wait"})
          = (log # <<>> /\ log[Len(log)].t = "req")

\* a finished run with two followers pages and two follows pages
C6_Witness ==
    /\ returned
    /\ Cardinality(At("req", "profile")) = 1
    /\ Cardinality(At("req", "followers")) = 2
    /\ Cardinality(At("req", "follows")) = 2
    /\ graph.mutuals # <<>>

\* ---- C7
\* C7: after a non-2xx answer to the profile request or to a page request
\* that answer is the last event of the run (no retry, no further request),
\* nothing was returned to main, the failing fetch left nothing in the graph,
\* no summary and no export exist, and the run has ended.
C7_FailureAbortsBuild ==
    \A ep \in GraphEps :
        Failed(ep) =>
            /\ log[Len(log)].t = "resp"
            /\ log[Len(log)].ep = ep
            /\ ~log[Len(log)].ok
            /\ Cardinality({i \in At("resp", ep) : ~log[i].ok}) = 1
            /\ ~returned
            /\ graph.mutuals = <<>>
            /\ ep \in PageEps => FetchResult(ep) = <<>>
            /\ ~summary.printed
            /\ exported = NoExport
            /\ Exited

\* the second follows page failed with the first page's items accumulated
C7_Witness ==
    /\ Failed("follows")
    /\ entries # <<>>
    /\ graph.followers # <<>>
    /\ Exited

\* ---- C8
AnyFailed == \E ep \in {"login"} \cup GraphEps : Failed(ep)

\* C8: a run with a failed request exits 1 with the error and the response
\* body on the error stream; every other run exits 0.
C8_ExitCodeAndErrorStream ==
    Exited =>
        IF AnyFailed
        THEN /\ exitCode = {1}
             /\ \E k \in DOMAIN stderr : stderr[k].error /\ stderr[k].body
        ELSE exitCode = {0}

\* ---- C9
LoginOkBefore(i) == \E j \in At("resp", "login") : j < i /\ log[j].ok

\* C9: the profile request goes to the public endpoint; a page request goes
\* to the authenticated endpoint with the bearer token iff a login succeeded
\* before it, else to the public endpoint without it; a login is attempted
\* iff handle and password are both given; all page requests of a run use
\* one endpoint.
C9_BaseEndpoint ==
    /\ \A i \in At("req", "profile") : log[i].base = PUBLIC_API
    /\ \A ep \in PageEps : \A i \in At("req", ep) :
          IF LoginOkBefore(i)
          THEN log[i].base = AUTH_API /\ log[i].bearer
          ELSE log[i].base = PUBLIC_API /\ ~log[i].bearer
    /\ \A i \in At("req", "login") : log[i].base = AUTH_API
    /\ pc # "main" => ((At("req", "login") # {}) = (args.handle /\ args.password))
    /\ Cardinality({log[i].base : i \in At("req", "followers") \cup At("req", "follows")}) <= 1

\* an authenticated run that fetched the profile and several pages
C9_Witness ==
    /\ exitCode = {0}
    /\ authenticated
    /\ Cardinality(At("req", "profile")) = 1
    /\ Cardinality(At("req", "followers")) = 2
    /\ Cardinality(At("req", "follows")) = 1

\* ---- C10
\* r is the first min(Len(s), n) entries of s
IsPrefixCap(r, s, n) ==
    /\ Len(r) <= n
    /\ Len(r) = (IF Len(s) < n THEN Len(s) ELSE n)
    /\ \A k \in DOMAIN r : r[k] = s[k]

\* C10: the summary's fans are the followers absent from follows, its
\* not-followed-back the follows absent from followers, each in list order;
\* every follows entry is in exactly one of mutuals and not-followed-back,
\* no fan is a mutual; 20 mutuals, 10 fans, 10 not-followed-back are listed
\* at most, always the first ones.
C10_SummarySets ==
    summary.printed =>
        /\ IsSubseqAt(summary.fans, graph.followers,
                      NotInOther(graph.followers, graph.follows))
        /\ IsSubseqAt(summary.not_followed_back, graph.follows,
                      NotInOther(graph.follows, graph.followers))
        /\ \A i \in DOMAIN graph.follows :
              (graph.follows[i] \in Range(graph.mutuals))
                  # (graph.follows[i] \in Range(summary.not_followed_back))
        /\ Len(graph.mutuals) + Len(summary.not_followed_back)
              = Len(graph.follows)
        /\ \A k \in DOMAIN summary.fans : \A m \in DOMAIN graph.mutuals :
              summary.fans[k].did # graph.mutuals[m].did
        /\ IsPrefixCap(summary.shown_mutuals, graph.mutuals, 20)
        /\ IsPrefixCap(summary.shown_fans, summary.fans, 10)
        /\ IsPrefixCap(summary.shown_not_followed_back,
                       summary.not_followed_back, 10)

\* a summary in which all three lists are longer than their caps
C10_Witness ==
    /\ summary.printed
    /\ Len(graph.mutuals) = 21
    /\ Len(summary.fans) = 11
    /\ Len(summary.not_followed_back) = 11
    /\ Len(summary.shown_mutuals) = 20
    /\ Len(summary.shown_fans) = 10
    /\ Len(summary.shown_not_followed_back) = 10

\* the scenario followers A,B,C and follows B,D
C10_Scenario ==
    /\ summary.printed
    /\ graph.followers = PageABC
    /\ graph.follows = PageBD
    /\ summary.fans = <<GraphEntry(1, "a"), GraphEntry(3, "c")>>
    /\ summary.not_followed_back = <<GraphEntry(4, "d")>>

====
